---- MODULE Spec2Model ----
(***************************************************************************)
(* Soul Theme Diagnosis API (app/main.py).                                 *)
(*                                                                         *)
(* A Python string is a sequence of one-character tokens.  ASCII           *)
(* characters stand for themselves; the other characters are named:        *)
(*   "F0" .. "F9"   the full-width digits U+FF10 .. U+FF19                 *)
(*   "F/" "F-" "F." the full-width slash, hyphen-minus and full stop       *)
(*   "nen" "gatsu" "nichi"  the unit characters for year, month and day    *)
(*   "IDSP"         the ideographic space U+3000                           *)
(*   "x"            a letter                                               *)
(***************************************************************************)
EXTENDS Integers, Sequences, FiniteSets, TLC

VARIABLES
    pc,          \* where the request stands
    raw,         \* the birthdate as received
    bd,          \* the normalized birthdate
    rangesFile,  \* dragon_head_ranges.json: "ok", "missing" or "malformed"
    ranges,      \* its content
    zmapFile,    \* zodiac_theme_map.json: "ok", "missing" or "malformed"
    zmap,        \* its content
    out          \* the outcome

vars == <<pc, raw, bd, rangesFile, ranges, zmapFile, zmap, out>>

-----------------------------------------------------------------------------
(* Characters *)

AsciiDigits == <<"0", "1", "2", "3", "4", "5", "6", "7", "8", "9">>

FullDigits == <<"F0", "F1", "F2", "F3", "F4", "F5", "F6", "F7", "F8", "F9">>

\* str.isspace(): what str.strip() removes and what \s matches
Whitespace == {" ", "IDSP"}

\* FULL2HALF = str.maketrans("０１２３４５６７８９／－．年月日", "0123456789/-.   ")
FULL2HALF(c) ==
    IF \E i \in 1..10 : FullDigits[i] = c
    THEN AsciiDigits[CHOOSE i \in 1..10 : FullDigits[i] = c]
    ELSE CASE c = "F/" -> "/"
           [] c = "F-" -> "-"
           [] c = "F." -> "."
           [] c = "nen" -> " "
           [] c = "gatsu" -> " "
           [] c = "nichi" -> " "
           [] OTHER -> c

\* \d of the re module on str: any Unicode decimal digit
IsDigit(c) == \E i \in 1..10 : AsciiDigits[i] = c \/ FullDigits[i] = c

DigitVal(c) == (CHOOSE i \in 1..10 : AsciiDigits[i] = c \/ FullDigits[i] = c) - 1

-----------------------------------------------------------------------------
(* String helpers *)

translate(s) == [i \in 1..Len(s) |-> FULL2HALF(s[i])]

RECURSIVE lstrip(_)
lstrip(s) == IF s # <<>> /\ Head(s) \in Whitespace THEN lstrip(Tail(s)) ELSE s

RECURSIVE rstrip(_)
rstrip(s) ==
    IF s # <<>> /\ s[Len(s)] \in Whitespace
    THEN rstrip(SubSeq(s, 1, Len(s) - 1))
    ELSE s

strip(s) == rstrip(lstrip(s))

\* int() of a string of digits
RECURSIVE int(_)
int(s) == IF s = <<>> THEN 0 ELSE 10 * int(SubSeq(s, 1, Len(s) - 1)) + DigitVal(s[Len(s)])

RECURSIVE decimal(_)
decimal(n) == IF n < 10 THEN <<AsciiDigits[n + 1]>> ELSE decimal(n \div 10) \o <<AsciiDigits[(n % 10) + 1]>>

RECURSIVE zfill(_, _)
zfill(s, w) == IF Len(s) >= w THEN s ELSE zfill(<<"0">> \o s, w)

\* a slip: the number written without its zero padding
fmt_unpadded(n, w) == decimal(n)

\* f"{n:0wd}"
fmt(n, w) == zfill(decimal(n), w)

\* f"{y:04d}-{mm:02d}-{dd:02d}"
fmt_date(y, mm, dd) == fmt(y, 4) \o <<"-">> \o fmt(mm, 2) \o <<"-">> \o fmt(dd, 2)

AllDigits(s) == \A i \in 1..Len(s) : IsDigit(s[i])

\* re.sub(r"\D", "", s)
RECURSIVE strip_non_digits(_)
strip_non_digits(s) ==
    IF s = <<>> THEN <<>>
    ELSE IF IsDigit(Head(s)) THEN <<Head(s)>> \o strip_non_digits(Tail(s))
    ELSE strip_non_digits(Tail(s))

-----------------------------------------------------------------------------
(* to_yyyy_mm_dd *)

NoMatch == [matched |-> FALSE, y |-> 0, mm |-> 0, dd |-> 0]

Groups(y, mm, dd) == [matched |-> TRUE, y |-> int(y), mm |-> int(mm), dd |-> int(dd)]

DelimClass == {"/", ".", " ", "-"}

\* re.fullmatch(r"(\d{4})[/. -](\d{1,2})[/. -](\d{1,2})", s)
match_delimited(s) ==
    IF \E a \in 1..2, b \in 1..2 :
          /\ Len(s) = 6 + a + b
          /\ AllDigits(SubSeq(s, 1, 4))
          /\ s[5] \in DelimClass
          /\ AllDigits(SubSeq(s, 6, 5 + a))
          /\ s[6 + a] \in DelimClass
          /\ AllDigits(SubSeq(s, 7 + a, 6 + a + b))
    THEN LET a == IF IsDigit(s[7]) THEN 2 ELSE 1
         IN  Groups(SubSeq(s, 1, 4), SubSeq(s, 6, 5 + a), SubSeq(s, 7 + a, Len(s)))
    ELSE NoMatch

\* \s* from position i: the position of the first non-space character
RECURSIVE skip_ws(_, _)
skip_ws(s, i) == IF i <= Len(s) /\ s[i] \in Whitespace THEN skip_ws(s, i + 1) ELSE i

\* (\d{1,2}) from position i: the number of digits taken, 0 when none
take_digits(s, i) ==
    IF i <= Len(s) /\ IsDigit(s[i])
    THEN IF i + 1 <= Len(s) /\ IsDigit(s[i + 1]) THEN 2 ELSE 1
    ELSE 0

\* re.fullmatch(r"(\d{4})\s*年\s*(\d{1,2})\s*月\s*(\d{1,2})\s*日", s)
match_localized(s) ==
    IF Len(s) >= 4 /\ AllDigits(SubSeq(s, 1, 4))
    THEN LET p1 == skip_ws(s, 5)
             p2 == skip_ws(s, p1 + 1)
             a  == take_digits(s, p2)
             p3 == skip_ws(s, p2 + a)
             p4 == skip_ws(s, p3 + 1)
             b  == take_digits(s, p4)
             p5 == skip_ws(s, p4 + b)
         IN  IF /\ p1 <= Len(s) /\ s[p1] = "nen"
                /\ a >= 1
                /\ p3 <= Len(s) /\ s[p3] = "gatsu"
                /\ b >= 1
                /\ p5 = Len(s) /\ s[p5] = "nichi"
             THEN Groups(SubSeq(s, 1, 4), SubSeq(s, p2, p2 + a - 1), SubSeq(s, p4, p4 + b - 1))
             ELSE NoMatch
    ELSE NoMatch

Returned(s) == [ok |-> TRUE, val |-> s]

\* raise ValueError(...)
InvalidFormat == [ok |-> FALSE, val |-> <<>>]

\* a slip: the pivot year itself sent to the 1900s
pivot_exclusive(yy) == IF yy < 29 THEN 2000 + yy ELSE 1900 + yy

\* 00-29 -> 2000s, 30-99 -> 1900s
pivot(yy) == IF yy <= 29 THEN 2000 + yy ELSE 1900 + yy

\* a slip: any run of eight or more digits read as YYYYMMDD
all_digit_fallback_lenient(digits) ==
    IF Len(digits) >= 8
    THEN Returned(fmt_date(int(SubSeq(digits, 1, 4)), int(SubSeq(digits, 5, 6)), int(SubSeq(digits, 7, 8))))
    ELSE IF Len(digits) = 6
    THEN Returned(fmt_date(pivot(int(SubSeq(digits, 1, 2))), int(SubSeq(digits, 3, 4)), int(SubSeq(digits, 5, 6))))
    ELSE InvalidFormat

all_digit_fallback(digits) ==
    IF Len(digits) = 8
    THEN Returned(fmt_date(int(SubSeq(digits, 1, 4)), int(SubSeq(digits, 5, 6)), int(SubSeq(digits, 7, 8))))
    ELSE IF Len(digits) = 6
    THEN Returned(fmt_date(pivot(int(SubSeq(digits, 1, 2))), int(SubSeq(digits, 3, 4)), int(SubSeq(digits, 5, 6))))
    ELSE InvalidFormat

normalize_input(r) == translate(strip(r))

to_yyyy_mm_dd(r) ==
    LET s  == normalize_input(r)
        m1 == match_delimited(s)
        m2 == match_localized(s)
    IN  IF m1.matched THEN Returned(fmt_date(m1.y, m1.mm, m1.dd))
        ELSE IF m2.matched THEN Returned(fmt_date(m2.y, m2.mm, m2.dd))
        ELSE all_digit_fallback(strip_non_digits(s))

-----------------------------------------------------------------------------
(* Range lookup *)

\* None, and the empty string: the values Python's "or" and "not" take as false
None == <<>>

or(a, b) == IF a # None THEN a ELSE b

replace(s, a, b) == [i \in 1..Len(s) |-> IF s[i] = a THEN b ELSE s[i]]

\* int(s): raises ValueError unless s is a string of digits
py_int(s) == IF s # <<>> /\ AllDigits(s) THEN [ok |-> TRUE, val |-> int(s)] ELSE [ok |-> FALSE, val |-> 0]

\* int(d.replace("-", ""))
yyyymmdd_int(d) == py_int(SelectSeq(d, LAMBDA c : c # "-"))

NoExc == [cls |-> "", status |-> 0, detail |-> "", about |-> None]

HTTPException(status, detail, about) ==
    [cls |-> "HTTPException", status |-> status, detail |-> detail, about |-> about]

Exception(cls) == [cls |-> cls, status |-> 0, detail |-> "", about |-> None]

Return(v) == [ret |-> TRUE, val |-> v, exc |-> NoExc]

Raise(e) == [ret |-> FALSE, val |-> None, exc |-> e]

RowKeys ==
    {"start_date", "start", "from", "end_date", "end", "to",
     "head_sign", "dragon_head_zodiac", "zodiac", "head", "dragon_tail_zodiac"}

row_start(row) == or(row["start_date"], or(row["start"], row["from"]))

row_end(row) == or(row["end_date"], or(row["end"], row["to"]))

row_head(row) == or(row["head_sign"], or(row["dragon_head_zodiac"], or(row["zodiac"], row["head"])))

\* a slip: the head left out of the test
complete_without_head(start, end, head) == start # None /\ end # None

\* start and end and head
complete(start, end, head) == start # None /\ end # None /\ head # None

\* a slip: the start bound taken as exclusive
in_range_exclusive(s_int, b, e_int) == s_int < b /\ b <= e_int

\* s_int <= bd <= e_int
in_range(s_int, b, e_int) == s_int <= b /\ b <= e_int

\* the for loop of find_head_zodiac, from the i-th row on
RECURSIVE scan_ranges(_, _, _)
scan_ranges(b, rows, i) ==
    IF i > Len(rows)
    THEN Raise(HTTPException(422, "Birthdate is outside of supported master ranges.", None))
    ELSE LET start == row_start(rows[i])
             end   == row_end(rows[i])
             head  == row_head(rows[i])
         IN  IF ~complete(start, end, head)
             THEN scan_ranges(b, rows, i + 1)
             ELSE LET s_int == yyyymmdd_int(replace(start, "/", "-"))
                      e_int == yyyymmdd_int(replace(end, "/", "-"))
                  IN  IF ~s_int.ok \/ ~e_int.ok
                      THEN Raise(HTTPException(500, "Invalid range date format", None))
                      ELSE IF in_range(s_int.val, b, e_int.val)
                      THEN Return(head)
                      ELSE scan_ranges(b, rows, i + 1)

\* a slip: the records scanned from the last to the first
find_head_zodiac_reversed(bd_str, rows) ==
    LET b == yyyymmdd_int(bd_str)
    IN  IF ~b.ok THEN Raise(Exception("ValueError"))
        ELSE scan_ranges(b.val, [i \in 1..Len(rows) |-> rows[Len(rows) + 1 - i]], 1)

find_head_zodiac(bd_str, rows) ==
    LET b == yyyymmdd_int(bd_str)
    IN  IF ~b.ok THEN Raise(Exception("ValueError")) ELSE scan_ranges(b.val, rows, 1)

-----------------------------------------------------------------------------
(* Range records the lookup is run on *)

\* longest list of range records
MaxRanges == 3

\* a short run of consecutive calendar days across a year's end: day 0 is
\* 1969-12-31, day i >= 1 is 1970-01-i
DateOf(i) == IF i = 0 THEN <<1969, 12, 31>> ELSE <<1970, 1, i>>

\* the days birthdates are drawn from, and the (start, end) days of the ranges
BirthDays == 0..3

Spans == {<<1, 2>>, <<2, 2>>}

DateStr(date, sep) == fmt(date[1], 4) \o <<sep>> \o fmt(date[2], 2) \o <<sep>> \o fmt(date[3], 2)

Heads == {<<"A">>, <<"B">>}

\* the key names a record uses for start, end and head, and the separator of its dates
Schemes ==
    { [start |-> "start_date", end |-> "end_date", head |-> "head_sign", sep |-> "-"],
      [start |-> "start", end |-> "end", head |-> "dragon_head_zodiac", sep |-> "/"] }

Scheme3 == [start |-> "from", end |-> "to", head |-> "zodiac", sep |-> "-"]

Scheme4 == [start |-> "from", end |-> "to", head |-> "head", sep |-> "/"]

EmptyRow == [k \in RowKeys |-> None]

MkRow(sch, start, end, head) ==
    [EmptyRow EXCEPT ![sch.start] = start, ![sch.end] = end, ![sch.head] = head,
                     !["dragon_tail_zodiac"] = <<"row", "tail">>]

CompleteRow(sch, span, h) ==
    MkRow(sch, DateStr(DateOf(span[1]), sch.sep), DateStr(DateOf(span[2]), sch.sep), h)

CompleteRows == {CompleteRow(sch, span, h) : sch \in Schemes, span \in Spans, h \in Heads}

\* records that lack a required field under every synonym; their other fields span every birthday
IncompleteRows ==
    { MkRow(Scheme3, None, DateStr(DateOf(3), "-"), <<"A">>),
      MkRow(Scheme3, DateStr(DateOf(0), "-"), None, <<"A">>),
      MkRow(Scheme3, DateStr(DateOf(0), "-"), DateStr(DateOf(3), "-"), None) }

\* a record with a bound that int() rejects: 1969.12.31
MalformedRows == { MkRow(Scheme4, DateStr(DateOf(0), "."), DateStr(DateOf(3), "/"), <<"A">>) }

Rows == CompleteRows \cup IncompleteRows \cup MalformedRows

RECURSIVE ListsUpTo(_, _)
ListsUpTo(S, n) ==
    IF n = 0 THEN {<<>>}
    ELSE LET shorter == ListsUpTo(S, n - 1)
         IN  shorter \cup {Append(l, x) : l \in shorter, x \in S}

RangeLists == ListsUpTo(Rows, MaxRanges)

Birthdates == {DateStr(DateOf(i), "-") : i \in BirthDays}

FindInit ==
    /\ pc = "start"
    /\ raw = <<>>
    /\ bd \in Birthdates
    /\ rangesFile = "ok"
    /\ ranges \in RangeLists
    /\ zmapFile = "ok"
    /\ zmap = <<>>
    /\ out = Raise(NoExc)

FindHead ==
    /\ pc = "start"
    /\ out' = find_head_zodiac(bd, ranges)
    /\ pc' = "done"
    /\ UNCHANGED <<raw, bd, rangesFile, ranges, zmapFile, zmap>>

FindNext == FindHead

SpecFind == FindInit /\ [][FindNext]_vars

-----------------------------------------------------------------------------
(* The /diagnose endpoint *)

\* _load_json: FileNotFoundError for a missing file, json.JSONDecodeError for malformed JSON
_load_json(file, data) ==
    IF file = "missing" THEN Raise(Exception("FileNotFoundError"))
    ELSE IF file = "malformed" THEN Raise(Exception("JSONDecodeError"))
    ELSE Return(data)

Required == {"dragon_tail_zodiac", "soul_theme", "reverse_theme"}

\* a value of the theme map: a dict (its items), or a plain theme-code string
DictEntry(items) == [kind |-> "dict", items |-> items]

StrEntry == [kind |-> "str", items |-> <<>>]

NoEntry == [kind |-> "none", items |-> <<>>]

\* zmap.get(head)
zmap_get(zm, head) == IF head \in DOMAIN zm THEN zm[head] ELSE NoEntry

\* not info: None and the empty dict are false
truthy(info) == info.kind = "str" \/ (info.kind = "dict" /\ DOMAIN info.items # {})

\* k in info (on a theme-code string: a substring test, false for a key name)
has_key(info, k) == info.kind = "dict" /\ k \in DOMAIN info.items

has_required(info) == \A k \in Required : has_key(info, k)

\* a slip: the tail zodiac filled with the head
DiagnoseOut_head_as_tail(head, info) ==
    [dragon_head_zodiac |-> head,
     dragon_tail_zodiac |-> head,
     soul_theme |-> info.items["soul_theme"],
     reverse_theme |-> info.items["reverse_theme"]]

DiagnoseOut(head, info) ==
    [dragon_head_zodiac |-> head,
     dragon_tail_zodiac |-> info.items["dragon_tail_zodiac"],
     soul_theme |-> info.items["soul_theme"],
     reverse_theme |-> info.items["reverse_theme"]]

NoBody ==
    [dragon_head_zodiac |-> None, dragon_tail_zodiac |-> None, soul_theme |-> None, reverse_theme |-> None]

\* the try block of diagnose
diagnose_try(b, rfile, rdata, zfile, zdata) ==
    LET rs == _load_json(rfile, rdata)
        zm == _load_json(zfile, zdata)
    IN  IF ~rs.ret THEN rs
        ELSE IF ~zm.ret THEN zm
        ELSE LET head == find_head_zodiac(b, rs.val)
                 info == zmap_get(zm.val, head.val)
             IN  IF ~head.ret THEN head
                 ELSE IF ~truthy(info)
                 THEN Raise(HTTPException(500, "zodiac_theme_map missing", head.val))
                 ELSE IF ~has_required(info)
                 THEN Raise(HTTPException(500, "zodiac_theme_map keys missing for", head.val))
                 ELSE Return(DiagnoseOut(head.val, info))

\* except ValueError: json.JSONDecodeError is a subclass of ValueError
IsValueError(cls) == cls \in {"ValueError", "JSONDecodeError"}

Response(status, detail, about, body) ==
    [status |-> status, detail |-> detail, about |-> about, body |-> body]

\* the except clauses of diagnose, in their order
diagnose_except(r) ==
    IF r.ret THEN Response(200, "", None, r.val)
    ELSE IF r.exc.cls = "HTTPException" THEN Response(r.exc.status, r.exc.detail, r.exc.about, NoBody)
    ELSE IF IsValueError(r.exc.cls) THEN Response(400, "str(e)", None, NoBody)
    ELSE IF r.exc.cls = "FileNotFoundError" THEN Response(500, "Missing master file", None, NoBody)
    ELSE Response(500, "Internal error", None, NoBody)

diagnose(b, rfile, rdata, zfile, zdata) == diagnose_except(diagnose_try(b, rfile, rdata, zfile, zdata))

-----------------------------------------------------------------------------
(* Requests, and the master files they find *)

FileStates == {"ok", "missing", "malformed"}

EntryKeys == Required \cup {"note"}

EntryValue(h, k) == <<k>> \o h

\* the dicts over the required keys, a dict without any of them, and a theme-code string
Entries(h) ==
    {DictEntry([k \in ks |-> EntryValue(h, k)]) : ks \in SUBSET Required}
        \cup {DictEntry([k \in {"note"} |-> EntryValue(h, k)]), StrEntry}

ZMaps ==
    UNION {{zm \in [hs -> UNION {Entries(h) : h \in hs}] : \A h \in hs : zm[h] \in Entries(h)} :
              hs \in SUBSET Heads}

\* birthdates as sent: each day in the canonical form, one day with slashes, one unparseable
DiagInputs ==
    {DateStr(DateOf(k), "-") : k \in 0..3}
        \cup {DateStr(DateOf(2), "/"), <<"x", "x", "x", "-", "x", "-", "x", "x", "x", "x">>}

DiagRangeLists == ListsUpTo(Rows, 1)

NoResponse == Response(0, "", None, NoBody)

DiagInit ==
    /\ pc = "received"
    /\ raw \in DiagInputs
    /\ bd = <<>>
    /\ rangesFile = "ok"
    /\ ranges = <<>>
    /\ zmapFile = "ok"
    /\ zmap = <<>>
    /\ out = NoResponse

\* DiagnoseIn: the birthdate field goes through to_yyyy_mm_dd; a ValueError there
\* is a request validation error, answered 422 before diagnose runs
Validate ==
    /\ pc = "received"
    /\ LET v == to_yyyy_mm_dd(raw)
       IN  IF v.ok
           THEN /\ bd' = v.val
                /\ pc' = "validated"
                /\ out' = out
           ELSE /\ bd' = bd
                /\ pc' = "rejected"
                /\ out' = Response(422, "validation error", None, NoBody)
    /\ UNCHANGED <<raw, rangesFile, ranges, zmapFile, zmap>>

Diagnose ==
    /\ pc = "validated"
    /\ \E rf \in FileStates, zf \in FileStates :
         \E rdata \in (IF rf = "ok" THEN DiagRangeLists ELSE {<<>>}),
            zdata \in (IF zf = "ok" THEN ZMaps ELSE {<<>>}) :
              /\ rangesFile' = rf
              /\ ranges' = rdata
              /\ zmapFile' = zf
              /\ zmap' = zdata
              /\ out' = diagnose(bd, rf, rdata, zf, zdata)
    /\ pc' = "responded"
    /\ UNCHANGED <<raw, bd>>

DiagNext == Validate \/ Diagnose

SpecDiag == DiagInit /\ [][DiagNext]_vars

-----------------------------------------------------------------------------
(* Inputs of the date normalizer *)

\* longest run of whitespace written at each optional-whitespace position
MaxWs == 1

Scripts == {"ascii", "full"}

\* a string of ASCII digits written in the given script
InScript(s, script) ==
    [i \in 1..Len(s) |-> IF script = "full" /\ IsDigit(s[i]) THEN FullDigits[DigitVal(s[i]) + 1] ELSE s[i]]

YearStrs == {<<"1", "9", "7", "0">>, <<"2", "0", "0", "4">>}

MonthStrs == {<<"7">>, <<"0", "7">>, <<"1", "2">>, <<"1", "3">>}

DayStrs == {<<"4">>, <<"0", "4">>, <<"2", "4">>, <<"4", "5">>}

AsciiSeps == {"/", "-", ".", " "}

FullSeps == {"F/", "F-", "F."}

Seps == AsciiSeps \cup FullSeps \cup {"IDSP"}

Spaces(n) == [i \in 1..n |-> " "]

DelimitedInput(y, m, d, sep1, sep2, script) ==
    InScript(y \o <<sep1>> \o m \o <<sep2>> \o d, script)

LocalizedInput(y, m, d, w, script, closed) ==
    InScript(y \o Spaces(w[1]) \o <<"nen">> \o Spaces(w[2]) \o m \o Spaces(w[3]) \o <<"gatsu">>
             \o Spaces(w[4]) \o d \o Spaces(w[5]) \o (IF closed THEN <<"nichi">> ELSE <<>>), script)

CompactInput(y, m, d, script) == InScript(y \o m \o d, script)

DelimitedInputs ==
    {DelimitedInput(y, m, d, s1, s2, sc) :
        y \in YearStrs, m \in MonthStrs, d \in DayStrs, s1 \in Seps, s2 \in Seps, sc \in Scripts}

WsChoices == [1..5 -> 0..MaxWs]

LocalizedInputs ==
    {LocalizedInput(y, m, d, w, sc, TRUE) :
        y \in YearStrs, m \in MonthStrs, d \in DayStrs, w \in WsChoices, sc \in Scripts}

NoWs == [i \in 1..5 |-> 0]

\* the long form without blanks, with and without its closing unit character
PlainLocalizedInputs ==
    {LocalizedInput(y, m, d, NoWs, sc, cl) :
        y \in YearStrs, m \in MonthStrs, d \in DayStrs, sc \in Scripts, cl \in BOOLEAN}

TwoDigitYears == {<<"0", "0">>, <<"2", "9">>, <<"3", "0">>, <<"7", "0">>, <<"9", "9">>}

PaddedMonths == {<<"0", "1">>, <<"0", "7">>, <<"1", "2">>, <<"1", "3">>}

PaddedDays == {<<"0", "1">>, <<"2", "4">>, <<"3", "1">>, <<"4", "5">>}

CompactInputs ==
    {CompactInput(y, m, d, sc) :
        y \in YearStrs \cup TwoDigitYears, m \in PaddedMonths, d \in PaddedDays, sc \in Scripts}

OtherInputs ==
    { <<>>,
      <<"x", "x", "x", "-", "x", "-", "x", "x", "x", "x">>,
      <<"1", "9", "7", "0", "7", "2", "4">>,
      <<"1", "9", "7", "0", "0", "7", "2", "4", "1">>,
      <<"7", "0", "-", "0", "7", "-", "2", "4">>,
      <<"7", "0", "-", "7", "-", "2", "4">>,
      <<"x", "1", "9", "7", "0", "0", "7", "2", "4">>,
      <<"1", "9", "7", "0", "-", "0", "7", "-", "2", "4", "x">>,
      <<"1", "9", "7", "0", "-", "-", "7", "-", "2", "4">>,
      <<"1", "9", "7", "-", "0", "7", "-", "2", "4">>,
      <<"nen", "gatsu", "nichi">> }

BareInputs == DelimitedInputs \cup PlainLocalizedInputs \cup CompactInputs \cup OtherInputs

\* the same inputs with leading and trailing whitespace
RawInputs == BareInputs \cup LocalizedInputs \cup {<<" ">> \o r \o <<"IDSP">> : r \in BareInputs}

-----------------------------------------------------------------------------
(* The normalizer applied to an input, and applied again to its own result *)

NormInit ==
    /\ raw \in RawInputs
    /\ pc = "start"
    /\ out = InvalidFormat
    /\ bd = <<>>
    /\ rangesFile = "ok"
    /\ ranges = <<>>
    /\ zmapFile = "ok"
    /\ zmap = <<>>

Normalize ==
    /\ pc = "start"
    /\ out' = to_yyyy_mm_dd(raw)
    /\ pc' = "done"
    /\ UNCHANGED <<raw, bd, rangesFile, ranges, zmapFile, zmap>>

Renormalize ==
    /\ pc = "done"
    /\ out.ok
    /\ raw' = out.val
    /\ out' = to_yyyy_mm_dd(out.val)
    /\ pc' = "again"
    /\ UNCHANGED <<bd, rangesFile, ranges, zmapFile, zmap>>

NormNext == Normalize \/ Renormalize

SpecNorm == NormInit /\ [][NormNext]_vars

-----------------------------------------------------------------------------
(* Properties of the date normalizer *)

AsciiDigitSet == {AsciiDigits[i] : i \in 1..10}

ZeroPadded(ds) == IF Len(ds) = 1 THEN <<"0">> \o ds ELSE ds

\* the zero-padded YYYY-MM-DD of a date written with the digit strings y, m, d
Canonical(y, m, d) == y \o <<"-">> \o ZeroPadded(m) \o <<"-">> \o ZeroPadded(d)

Unspaced(s) == SelectSeq(s, LAMBDA c : c # " ")

\* four digits, '-', two digits, '-', two digits
CanonicalShape(v) ==
    /\ Len(v) = 10
    /\ v[5] = "-"
    /\ v[8] = "-"
    /\ \A i \in {1, 2, 3, 4, 6, 7, 9, 10} : v[i] \in AsciiDigitSet

\* format 1 of the normalizer, on a converted string: YYYY, a delimiter, M(M), a delimiter, D(D)
DelimitedForm(s) ==
    \E j \in {7, 8} :
        /\ Len(s) - j \in {1, 2}
        /\ s[5] \in AsciiSeps
        /\ s[j] \in AsciiSeps
        /\ \A k \in (1..Len(s)) \ {5, j} : s[k] \in AsciiDigitSet

\* format 2 of the normalizer: YYYY 年 M(M) 月 D(D) 日 with optional blanks
LocalizedForm(s) ==
    /\ s # <<>>
    /\ s[Len(s)] = "nichi"
    /\ \E y \in YearStrs, m \in MonthStrs, d \in DayStrs, sc \in Scripts :
           Unspaced(s) = LocalizedInput(y, m, d, NoWs, sc, TRUE)

\* the digits of an input, in ASCII
DigitsOf(s) == translate(SelectSeq(s, IsDigit))

Finished == pc \in {"done", "again"}

\* C1: every localized long-form input YYYY年M月D日 (ASCII or full-width digits,
\* optional whitespace around the unit characters) is accepted and normalizes to
\* the zero-padded YYYY-MM-DD of the same date.
C1_LocalizedAccepted ==
    (pc = "done" /\ raw # <<>> /\ raw[Len(raw)] = "nichi") =>
        \A y \in YearStrs, m \in MonthStrs, d \in DayStrs, sc \in Scripts :
            Unspaced(raw) = LocalizedInput(y, m, d, NoWs, sc, TRUE)
                => out = Returned(Canonical(y, m, d))

SameDateForms(seps) ==
    /\ (Len(raw) \in 8..10 /\ raw[5] \in seps) =>
           \A y \in YearStrs, m \in MonthStrs, d \in DayStrs, sc \in Scripts :
               raw = DelimitedInput(y, m, d, raw[5], raw[5], sc) => out = Returned(Canonical(y, m, d))
    /\ Len(raw) = 8 =>
           \A y \in YearStrs, m \in PaddedMonths, d \in PaddedDays, sc \in Scripts :
               raw = CompactInput(y, m, d, sc) => out = Returned(Canonical(y, m, d))

\* C2 (as stated): YYYYMMDD, YYYY/M/D, YYYY.M.D, YYYY-M-D and YYYY M D, digits and
\* separators ASCII or full-width, all normalize to the same zero-padded
\* YYYY-MM-DD, and normalizing that result again returns it unchanged.
C2_AllSeparators ==
    /\ pc = "done" => SameDateForms(Seps)
    /\ pc = "again" => out = Returned(raw)

\* C2 (amended): the same, for the separators / - . and space in ASCII and the
\* full-width forms of / - . (the ideographic space is not a separator).
C2_SameCanonical ==
    /\ pc = "done" => SameDateForms(AsciiSeps \cup FullSeps)
    /\ pc = "again" => out = Returned(raw)

C2_Witness ==
    /\ pc = "again"
    /\ raw = <<"1", "9", "7", "0", "-", "0", "7", "-", "2", "4">>
    /\ out.ok

\* C3: every accepted input yields a canonical date with month in 1..12 and
\* day in 1..31.
C3_MonthDayInRange ==
    (pc = "done" /\ out.ok) =>
        /\ int(SubSeq(out.val, 6, 7)) \in 1..12
        /\ int(SubSeq(out.val, 9, 10)) \in 1..31

PivotDate(ds) ==
    (IF 10 * DigitVal(ds[1]) + DigitVal(ds[2]) <= 29 THEN <<"2", "0">> ELSE <<"1", "9">>)
        \o SubSeq(ds, 1, 2) \o <<"-">> \o SubSeq(ds, 3, 4) \o <<"-">> \o SubSeq(ds, 5, 6)

\* C10 (as stated): every input that reduces to exactly six digits yymmdd yields
\* year 2000+yy for yy <= 29 and 1900+yy for yy >= 30, mm and dd copied.
C10_SixDigitsPivot ==
    (pc = "done" /\ Len(DigitsOf(raw)) = 6) => out = Returned(PivotDate(DigitsOf(raw)))

\* C10 (amended): every input that is not in the delimited form and reduces to
\* exactly six digits yymmdd yields year 2000+yy for yy <= 29 and 1900+yy for
\* yy >= 30, mm and dd copied; the year lies in 1930..2029.
C10_FallbackPivot ==
    (pc = "done" /\ Len(DigitsOf(raw)) = 6 /\ ~DelimitedForm(normalize_input(raw))) =>
        /\ out = Returned(PivotDate(DigitsOf(raw)))
        /\ int(SubSeq(out.val, 1, 4)) \in 1930..2029

C10_Witness ==
    /\ pc = "done"
    /\ raw = <<"3", "0", "0", "1", "0", "1">>
    /\ out = Returned(<<"1", "9", "3", "0", "-", "0", "1", "-", "0", "1">>)

-----------------------------------------------------------------------------
(* Properties of the range lookup *)

\* YYYYMMDD of a calendar date
DateInt(date) == date[1] * 10000 + date[2] * 100 + date[3]

CanonicalOfDay == [k \in BirthDays |-> DateStr(DateOf(k), "-")]

BirthDay == CHOOSE k \in BirthDays : bd = CanonicalOfDay[k]

Within(span, k) ==
    DateInt(DateOf(span[1])) <= DateInt(DateOf(k)) /\ DateInt(DateOf(k)) <= DateInt(DateOf(span[2]))

\* the records with all required fields, each with its range and its head
Described ==
    {[row |-> CompleteRow(sch, span, h), span |-> span, head |-> h] :
        sch \in Schemes, span \in Spans, h \in Heads}

\* the record has all required fields and its range contains day k
Contains(row, k) == \E d \in Described : d.row = row /\ Within(d.span, k)

HeadOf(row) == (CHOOSE d \in Described : d.row = row).head

Matching == {i \in 1..Len(ranges) : Contains(ranges[i], BirthDay)}

FirstOf(S) == CHOOSE i \in S : \A j \in S : i <= j

OutOfRange == Raise(HTTPException(422, "Birthdate is outside of supported master ranges.", None))

\* C4: a record with all required fields and bounds written YYYY-MM-DD or
\* YYYY/MM/DD matches a date exactly when start <= date <= end as YYYYMMDD
\* integers: the start and the end day match, the day before the start and the
\* day after the end do not.
C4_InclusiveBounds ==
    (pc = "done" /\ ranges # <<>>) =>
        \A d \in Described :
            ranges[1] = d.row =>
                /\ Within(d.span, BirthDay) => out = Return(d.head)
                /\ (~Within(d.span, BirthDay) /\ Len(ranges) = 1) => out = OutOfRange

C4_Witness ==
    /\ pc = "done"
    /\ ranges = <<CompleteRow([start |-> "start", end |-> "end", head |-> "dragon_head_zodiac", sep |-> "/"],
                              <<1, 2>>, <<"B">>)>>
    /\ BirthDay = 2
    /\ out = Return(<<"B">>)

Skipping ==
    LET stops == {i \in 1..Len(ranges) : i \in Matching \/ ranges[i] \in MalformedRows}
    IN  IF stops = {} THEN OutOfRange
        ELSE IF ranges[FirstOf(stops)] \in MalformedRows
        THEN Raise(HTTPException(500, "Invalid range date format", None))
        ELSE Return(HeadOf(ranges[FirstOf(stops)]))

HasIncomplete == \E i \in 1..Len(ranges) : ranges[i] \in IncompleteRows

-----------------------------------------------------------------------------
(* Properties of the /diagnose endpoint *)

Loaded == rangesFile = "ok" /\ zmapFile = "ok"

RichEntry(h) == h \in DOMAIN zmap /\ zmap[h].kind = "dict" /\ Required \subseteq DOMAIN zmap[h].items

\* C6: for a birthdate whose matched head zodiac is h, the result exists exactly
\* when the theme map holds for h an entry with all of dragon_tail_zodiac,
\* soul_theme and reverse_theme, and is then head h with the entry's tail, soul
\* and reverse theme; otherwise the outcome is a mapping error naming h, with
\* no partial result.
C6_RichEntry ==
    (pc = "responded" /\ Loaded /\ Matching # {} /\ Skipping.ret) =>
        LET h == Skipping.val
        IN  IF RichEntry(h)
            THEN out = Response(200, "", None,
                                [dragon_head_zodiac |-> h,
                                 dragon_tail_zodiac |-> zmap[h].items["dragon_tail_zodiac"],
                                 soul_theme |-> zmap[h].items["soul_theme"],
                                 reverse_theme |-> zmap[h].items["reverse_theme"]])
            ELSE /\ out.status = 500
                 /\ out.detail \in {"zodiac_theme_map missing", "zodiac_theme_map keys missing for"}
                 /\ out.about = h
                 /\ out.body = NoBody

C6_Witness ==
    /\ pc = "responded"
    /\ Loaded
    /\ Matching # {}
    /\ out.status = 200
    /\ out.body.dragon_head_zodiac = <<"B">>
    /\ out.body.dragon_tail_zodiac = <<"dragon_tail_zodiac", "B">>
    /\ ranges[1]["dragon_tail_zodiac"] = <<"row", "tail">>

\* C8: whenever either master file cannot be loaded (missing or malformed JSON)
\* the request ends in a server-side data error, never in a caller-input error
\* and never in a result.
C8_DataUnavailable ==
    (pc = "responded" /\ ~Loaded) => (out.status \in 500..599 /\ out.body = NoBody)

====
